---------------------------- MODULE Spec2Model ----------------------------
(***************************************************************************)
(* A model of the RAG application: the retriever (vector search and        *)
(* rerank), the chat memory, the answer generator and the vector search    *)
(* index manager.  Strings of the program are TLA+ strings, lists are      *)
(* sequences, dictionaries are functions from field names to values.       *)
(***************************************************************************)
EXTENDS Integers, Sequences, FiniteSets, TLC

VARIABLES
    collection,          \* MongoDBClient.collection: the stored chunks
    history_collection,  \* MongoDBClient.history_collection, in insertion order
    clock,               \* what datetime.now() last returned, as stored by MongoDB
    chat_memory,         \* AnswerGenerator.chat_memory is not None
    pc,                  \* per caller: where its generate / search call stands
    args,                \* per caller: user_query, session_id, use_rerank
    retrieval,           \* per caller: what the retriever did for this call
    prompt,              \* per caller: the local `prompt` of generate
    messages,            \* per caller: the list `messages` of generate
    response,            \* per caller: the local `response` of generate
    answer,              \* per caller: the local `answer` of generate
    n_calls,             \* calls started so far
    completed,           \* per session: generate calls with memory that returned
    cleared,             \* per session: clear_history was called
    search_indexes,      \* the store's search indexes: name -> status
    ix_pc,               \* where create_basic_index stands
    attempts,            \* check_index_ready's local `attempts`
    ix_result,           \* what create_basic_index returned
    ix_log,              \* the requests and listings of this create_basic_index call
    request,             \* per caller: the QueryRequest its query_rag handles
    call,                \* the latest direct call of a ChatMemory method
    loader,              \* ingest_data.main and process_documents: where they stand
    service              \* api.py: settings, startup_event, module globals, last response

gen_vars == <<collection, history_collection, clock, chat_memory, pc, args,
              retrieval, prompt, messages, response, answer, n_calls,
              completed, cleared>>
ix_vars == <<search_indexes, ix_pc, attempts, ix_result, ix_log>>
aux_vars == <<request, call, loader, service>>
vars == <<gen_vars, ix_vars, aux_vars>>

-----------------------------------------------------------------------------
(* Bounds of the model *)

MaxCalls == 2
MaxClock == 1
MaxRerankLen == 2
MaxSeen == 3
MaxMessages == 3
MaxStamp == 3
MaxDocs == 2

(* Program constants: config/settings.py *)

NUM_CANDIDATES == 150
VECTOR_SEARCH_LIMIT == 5
RERANK_TOP_K == 5
ATLAS_VECTOR_SEARCH_INDEX_NAME == "vector_index"

(* check_index_ready: max_attempts *)

max_attempts == 60

None == "<None>"
Procs == {1, 2}
SeqProcs == {1}
Queries == <<"q1", "q2", "q3", "q4">>
SessionIds == {None, "", "s1", "s2"}
Sessions == {"s1", "s2"}

\* Python truthiness of an Optional[str]
Truthy(s) == s # None /\ s # ""

Min(a, b) == IF a < b THEN a ELSE b

\* dict.get(key, default)
Get(d, key, default) == IF key \in DOMAIN d THEN d[key] ELSE default

\* the position list[i] of Python reads, 1-based: a negative i counts from
\* the end; 0 when it raises IndexError
PyIndex(n, i) ==
    IF 0 <= i /\ i < n THEN i + 1
    ELSE IF -n <= i /\ i < 0 THEN n + i + 1
    ELSE 0

RECURSIVE Join(_, _)
\* sep.join(strs)
Join(strs, sep) ==
    IF strs = <<>> THEN ""
    ELSE IF Len(strs) = 1 THEN strs[1]
    ELSE strs[1] \o sep \o Join(Tail(strs), sep)

-----------------------------------------------------------------------------
(* The stored chunks and the store's vector search *)

KnowledgeBase ==
    << [body |-> "b1", productName |-> "X", embedding |-> 1],
       [productName |-> "Y", embedding |-> 3] >>

\* the query vector the embedding service returns for a query
QueryEmbedding(q) == IF q = "q1" THEN 0 ELSE 4

\* vectorSearchScore: higher is nearer
Score(qv, dv) == IF qv < dv THEN 10 - (dv - qv) ELSE 10 - (qv - dv)

\* the $project stage: body, metadata.productName and the score
Project(d, qv) ==
    [k \in (DOMAIN d \ {"embedding"}) \cup {"score"} |->
        IF k = "score" THEN Score(qv, d.embedding) ELSE d[k]]

RECURSIVE Ranked(_, _, _)
\* the positions S of coll, nearest to qv first
Ranked(coll, S, qv) ==
    IF S = {} THEN <<>>
    ELSE LET best == CHOOSE i \in S : \A j \in S :
                        Score(qv, coll[i].embedding) >= Score(qv, coll[j].embedding)
         IN  <<best>> \o Ranked(coll, S \ {best}, qv)

\* a variant that cuts to the limit first and filters afterwards
Aggregate_PostFilter(coll, qv, filter, num_candidates, limit) ==
    LET order == Ranked(coll, DOMAIN coll, qv)
        n == Min(Len(order), Min(num_candidates, limit))
        top == SubSeq(order, 1, n)
        kept == SelectSeq(top, LAMBDA i :
                    \A k \in DOMAIN filter : Get(coll[i], k, None) = filter[k])
    IN  [k \in DOMAIN kept |-> Project(coll[kept[k]], qv)]

\* collection.aggregate([{$vectorSearch: ...}, {$project: ...}])
Aggregate(coll, qv, filter, num_candidates, limit) ==
    LET match == {i \in DOMAIN coll :
                     \A k \in DOMAIN filter : Get(coll[i], k, None) = filter[k]}
        order == Ranked(coll, match, qv)
        n == Min(Len(order), Min(num_candidates, limit))
    IN  [k \in 1..n |-> Project(coll[order[k]], qv)]

NoFilter == <<>>

\* lines 44-47: a parameter left None takes the setting; an Optional[int]
\* is <<>> for None and <<n>> for n
Default(v, setting) == IF v = <<>> THEN setting ELSE v[1]

\* lines 52-65: the $vectorSearch stage sent to the store; the filter is in
\* it when one is given
vector_search_stage(filter_criteria, num_candidates, limit) ==
    IF filter_criteria # NoFilter
    THEN [numCandidates |-> num_candidates, limit |-> limit,
          filter |-> filter_criteria]
    ELSE [numCandidates |-> num_candidates, limit |-> limit]

\* VectorRetriever.search
search(coll, user_query, filter_criteria, num_candidates, limit) ==
    Aggregate(coll, QueryEmbedding(user_query), filter_criteria,
              num_candidates, limit)

-----------------------------------------------------------------------------
(* Rerank *)

RelevanceScores == {1, 2}

\* what the rerank service may answer for n documents: a ranking, best first,
\* that names no document twice; an index outside 0..n-1 breaks its contract
RerankResponses(n, top_k) ==
    {r \in UNION {[1..m -> [index : -(n + 1)..n, relevance_score : RelevanceScores]] :
                     m \in 0..Min(MaxRerankLen, top_k)} :
        /\ \A i, j \in DOMAIN r : i # j => r[i].index # r[j].index
        /\ \A i, j \in DOMAIN r : i < j => r[i].relevance_score >= r[j].relevance_score}

\* documents = [d.get("body", "") for d in results]
Documents(results) == [k \in DOMAIN results |-> Get(results[k], "body", "")]

\* a variant that takes the k-th search record for the k-th rerank result
OriginalDocs_ByRank(results, reranked) ==
    [k \in DOMAIN reranked |-> IF k <= Len(results) THEN k ELSE 0]

\* results[rerank_result.index] for each rerank result; 0 where it raises IndexError
OriginalDocs(results, reranked) ==
    [k \in DOMAIN reranked |-> PyIndex(Len(results), reranked[k].index)]

\* the loop of search_with_rerank: original_doc is the dictionary held by
\* `results`, so an assignment to it is seen at every place that holds it
RerankedResults(results, reranked) ==
    LET at == OriginalDocs(results, reranked)
        last(j) == CHOOSE k \in DOMAIN reranked :
                      /\ at[k] = j
                      /\ \A k2 \in DOMAIN reranked : at[k2] = j => k2 <= k
        mutated == [j \in DOMAIN results |->
                      IF \E k \in DOMAIN reranked : at[k] = j
                      THEN [f \in DOMAIN results[j] \cup {"rerank_score"} |->
                              IF f = "rerank_score"
                              THEN reranked[last(j)].relevance_score
                              ELSE results[j][f]]
                      ELSE results[j]]
    IN  [k \in DOMAIN reranked |-> mutated[at[k]]]

\* a variant without the early return of lines 123-124
search_with_rerank_NoGuard(results, reranked) ==
    IF \E k \in DOMAIN reranked : OriginalDocs(results, reranked)[k] = 0
    THEN [raised |-> TRUE, rerank_called |-> TRUE, value |-> <<>>]
    ELSE [raised |-> FALSE, rerank_called |-> TRUE,
          value |-> RerankedResults(results, reranked)]

\* VectorRetriever.search_with_rerank, given what the rerank service answers
\* when it is called
search_with_rerank(results, reranked) ==
    IF Documents(results) = <<>>
    THEN [raised |-> FALSE, rerank_called |-> FALSE, value |-> <<>>]
    ELSE IF \E k \in DOMAIN reranked : OriginalDocs(results, reranked)[k] = 0
    THEN [raised |-> TRUE, rerank_called |-> TRUE, value |-> <<>>]
    ELSE [raised |-> FALSE, rerank_called |-> TRUE,
          value |-> RerankedResults(results, reranked)]

\* the answers of the rerank service that search_with_rerank can meet
Reranked(results, top_k) ==
    IF Documents(results) = <<>> THEN {<<>>}
    ELSE RerankResponses(Len(results), top_k)

\* the answers within the contract of the service: Min(top_k, n) of the n
\* documents, each named by its position
Rankings(results, top_k) ==
    {r \in Reranked(results, top_k) :
        /\ \A k \in DOMAIN r : 0 <= r[k].index /\ r[k].index < Len(results)
        /\ Len(r) = Min(Len(results), Min(MaxRerankLen, top_k))}

-----------------------------------------------------------------------------
(* Chat memory *)

\* ChatMemory.store_message: insert_one of a message stamped `now`
store_message(coll, session_id, role, content, now) ==
    Append(coll, [session_id |-> session_id, role |-> role,
                  content |-> content, timestamp |-> now])

RECURSIVE SortedOrders(_, _)
\* find(...).sort("timestamp", 1): the positions S of coll by ascending
\* timestamp; the store fixes no order among equal timestamps
SortedOrders(coll, S) ==
    IF S = {} THEN {<<>>}
    ELSE UNION {{<<i>> \o rest : rest \in SortedOrders(coll, S \ {i})} :
                  i \in {j \in S : \A k \in S :
                            coll[j].timestamp <= coll[k].timestamp}}

\* the cursors collection.find({"session_id": session_id}).sort("timestamp", 1)
\* may yield, as positions of coll
Cursors(coll, session_id) ==
    SortedOrders(coll, {i \in DOMAIN coll : coll[i].session_id = session_id})

\* a variant that reads the messages of the cursor in insertion order
retrieve_history_Unsorted(coll, cursor) ==
    LET found == SelectSeq([i \in 1..Len(coll) |-> i],
                           LAMBDA i : \E k \in DOMAIN cursor : cursor[k] = i)
    IN  [k \in DOMAIN found |->
            [role |-> coll[found[k]].role, content |-> coll[found[k]].content]]

\* ChatMemory.retrieve_history for one such cursor
retrieve_history(coll, cursor) ==
    [k \in DOMAIN cursor |->
        [role |-> coll[cursor[k]].role, content |-> coll[cursor[k]].content]]

\* a variant that deletes the first message of the session only
clear_history_DeleteOne(coll, session_id) ==
    LET S == {i \in DOMAIN coll : coll[i].session_id = session_id}
    IN  IF S = {} THEN coll
        ELSE LET first == CHOOSE i \in S : \A j \in S : i <= j
             IN  SubSeq(coll, 1, first - 1) \o SubSeq(coll, first + 1, Len(coll))

\* a variant that deletes the messages of every session
clear_history_All(coll, session_id) == <<>>

\* ChatMemory.clear_history: delete_many({"session_id": session_id})
clear_history(coll, session_id) ==
    SelectSeq(coll, LAMBDA m : m.session_id # session_id)

-----------------------------------------------------------------------------
(* Answer generator *)

\* AnswerGenerator.create_prompt, given the documents the retriever returned
\* a variant that answers for itself when there is no context
create_prompt_LocalBranch(context_docs, user_query) ==
    IF context_docs = <<>>
    THEN "I DON'T KNOW"
    ELSE "Answer the question based only on the following context. "
         \o "If the context is empty, say I DON'T KNOW\n\n"
         \o "Context:\n"
         \o Join([k \in DOMAIN context_docs |->
                     Get(context_docs[k], "body", "")], "\n\n")
         \o "\n\n" \o "Question:" \o user_query

create_prompt(context_docs, user_query) ==
    LET context == Join([k \in DOMAIN context_docs |->
                            Get(context_docs[k], "body", "")], "\n\n")
    IN  "Answer the question based only on the following context. "
        \o "If the context is empty, say I DON'T KNOW\n\n"
        \o "Context:\n" \o context \o "\n\n"
        \o "Question:" \o user_query

\* what the completion service may answer: a status and a body; the body is
\* a JSON object (its fields) or no JSON at all
NotJson == [json |-> FALSE, fields |-> <<>>]
JsonObject(fields) == [json |-> TRUE, fields |-> fields]
Responses ==
    {[status_code |-> 200, body |-> JsonObject([text |-> "a1"])],
     [status_code |-> 200, body |-> JsonObject(<<>>)],
     [status_code |-> 500, body |-> JsonObject([error |-> "e1"])],
     [status_code |-> 500, body |-> JsonObject(<<>>)],
     [status_code |-> 502, body |-> NotJson]}

\* lines 98-101 of generate: the answer, or the exception raised
Answer(resp) ==
    IF ~resp.body.json
    THEN [raised |-> "JSONDecodeError", answer |-> None]
    ELSE IF resp.status_code = 200
    THEN IF "text" \in DOMAIN resp.body.fields
         THEN [raised |-> None, answer |-> resp.body.fields.text]
         ELSE [raised |-> "KeyError", answer |-> None]
    ELSE [raised |-> None,
          answer |-> "Error: " \o Get(resp.body.fields, "error", "Unknown error")]

-----------------------------------------------------------------------------
(* The state after construction *)

IndexNames == {"vector_index", "other_index"}
\* the record of one create_basic_index call: its requests in order, the
\* listings of check_index_ready (their count, the first statuses seen, the
\* number of the first that saw READY and of the first that saw FAILED or
\* DELETING; 0 for none), and of the listings of create_vector_search_index
\* whether the first and the latest showed the index
NoLog == [order |-> <<>>, polls |-> 0, seen |-> <<>>,
          first_ready |-> 0, first_failed |-> 0,
          existed |-> FALSE, listed |-> FALSE]

NoArgs == [user_query |-> None, session_id |-> None, use_rerank |-> FALSE]
NoResponse == <<>>
NoRetrieval == <<>>
NoRequest == <<>>
\* no call yet; `appended` is, per session, what was stored under it since
\* its latest clear_history
NoCall == [op |-> "none", session_id |-> None,
           appended |-> [s \in Sessions |-> <<>>]]
NoLoader == [pc |-> "idle"]
NoService == [pc |-> "off"]

Init ==
    /\ collection \in {<<>>, KnowledgeBase}
    /\ history_collection = <<>>
    /\ clock = 0
    /\ chat_memory \in BOOLEAN
    /\ pc = [p \in Procs |-> "idle"]
    /\ args = [p \in Procs |-> NoArgs]
    /\ retrieval = [p \in Procs |-> NoRetrieval]
    /\ prompt = [p \in Procs |-> None]
    /\ messages = [p \in Procs |-> <<>>]
    /\ response = [p \in Procs |-> NoResponse]
    /\ answer = [p \in Procs |-> None]
    /\ n_calls = 0
    /\ completed = [s \in Sessions |-> 0]
    /\ cleared = [s \in Sessions |-> FALSE]
    /\ search_indexes = [n \in IndexNames |-> "ABSENT"]
    /\ ix_pc = "idle"
    /\ attempts = 0
    /\ ix_result = FALSE
    /\ ix_log = NoLog
    /\ request = [p \in Procs |-> NoRequest]
    /\ call = NoCall
    /\ loader = NoLoader
    /\ service = NoService

-----------------------------------------------------------------------------
(* AnswerGenerator.generate, one action per call it makes to a service *)

\* a variant that takes the empty string for a session
UsesMemory_NotNone(p) == args[p].session_id # None /\ chat_memory

\* `if session_id and self.chat_memory` (lines 84 and 104)
UsesMemory(p) == Truthy(args[p].session_id) /\ chat_memory

\* lines 76-81: the call generate(q, s, r), and create_prompt with its
\* retrieval; `reranked` is what the rerank service answers if it is called;
\* `request` is the caller's
Generate(p, q, s, r, reranked) ==
    /\ pc[p] = "idle"
    /\ n_calls < MaxCalls
    /\ n_calls' = n_calls + 1
    /\ LET results == search(collection, q, NoFilter, NUM_CANDIDATES,
                             VECTOR_SEARCH_LIMIT)
           context_docs ==
               IF r THEN search_with_rerank(results, reranked)
               ELSE [raised |-> FALSE, rerank_called |-> FALSE, value |-> results]
       IN  /\ reranked \in IF r THEN Reranked(results, RERANK_TOP_K) ELSE {<<>>}
           /\ args' = [args EXCEPT ![p] = [user_query |-> q, session_id |-> s,
                                            use_rerank |-> r]]
           /\ IF context_docs.raised
              THEN /\ pc' = [pc EXCEPT ![p] = "raised"]
                   /\ UNCHANGED <<prompt, messages>>
              ELSE /\ pc' = [pc EXCEPT ![p] = "history"]
                   /\ prompt' = [prompt EXCEPT ![p] =
                           create_prompt(context_docs.value, q)]
                   /\ messages' = [messages EXCEPT ![p] =
                           <<[role |-> "user", content |-> prompt'[p]]>>]
    /\ UNCHANGED <<collection, history_collection, clock, chat_memory, retrieval,
                   response, answer, completed, cleared, ix_vars, call, loader, service>>

\* a variant that appends the user message before the history
History_QueryFirst(p) ==
    /\ pc[p] = "history"
    /\ \E cursor \in Cursors(history_collection, args[p].session_id) :
         LET message_history ==
                 IF UsesMemory(p) THEN retrieve_history(history_collection, cursor)
                 ELSE <<>>
             user_message == [role |-> "user", content |-> args[p].user_query]
         IN  messages' = [messages EXCEPT ![p] =
                             Append(@, user_message) \o message_history]
    /\ pc' = [pc EXCEPT ![p] = "post"]
    /\ UNCHANGED <<collection, history_collection, clock, chat_memory, args,
                   retrieval, prompt, response, answer, n_calls, completed,
                   cleared, ix_vars, aux_vars>>

\* a variant that stores the user message when it reads the history
History_StoresFirst(p) ==
    /\ pc[p] = "history"
    /\ \E cursor \in Cursors(history_collection, args[p].session_id) :
         LET message_history ==
                 IF UsesMemory(p) THEN retrieve_history(history_collection, cursor)
                 ELSE <<>>
             user_message == [role |-> "user", content |-> args[p].user_query]
         IN  messages' = [messages EXCEPT ![p] =
                             Append(@ \o message_history, user_message)]
    /\ history_collection' =
           IF UsesMemory(p)
           THEN store_message(history_collection, args[p].session_id, "user",
                              args[p].user_query, clock)
           ELSE history_collection
    /\ pc' = [pc EXCEPT ![p] = "post"]
    /\ UNCHANGED <<collection, clock, chat_memory, args,
                   retrieval, prompt, response, answer, n_calls, completed,
                   cleared, ix_vars, aux_vars>>

\* lines 83-96: the history read, the user message, the request
History(p) ==
    /\ pc[p] = "history"
    /\ \E cursor \in Cursors(history_collection, args[p].session_id) :
         LET message_history ==
                 IF UsesMemory(p) THEN retrieve_history(history_collection, cursor)
                 ELSE <<>>
             user_message == [role |-> "user", content |-> args[p].user_query]
         IN  messages' = [messages EXCEPT ![p] =
                             Append(@ \o message_history, user_message)]
    /\ pc' = [pc EXCEPT ![p] = "post"]
    /\ UNCHANGED <<collection, history_collection, clock, chat_memory, args,
                   retrieval, prompt, response, answer, n_calls, completed,
                   cleared, ix_vars, aux_vars>>

\* lines 93-104: the response of the completion service and the answer
Completion(p) ==
    /\ pc[p] = "post"
    /\ \E resp \in Responses :
         /\ response' = [response EXCEPT ![p] = resp]
         /\ answer' = [answer EXCEPT ![p] = Answer(resp).answer]
         /\ pc' = [pc EXCEPT ![p] =
                     IF Answer(resp).raised # None THEN "raised"
                     ELSE IF UsesMemory(p) THEN "store_user"
                     ELSE "return"]
    /\ UNCHANGED <<collection, history_collection, clock, chat_memory, args,
                   retrieval, prompt, messages, n_calls, completed, cleared,
                   ix_vars, aux_vars>>

\* a variant that stores the instruction message in place of the query
StoreUser_Prompt(p) ==
    /\ pc[p] = "store_user"
    /\ \E now \in clock..Min(clock + 1, MaxClock) :
         /\ clock' = now
         /\ history_collection' =
                store_message(history_collection, args[p].session_id, "user",
                              prompt[p], now)
    /\ pc' = [pc EXCEPT ![p] = "store_assistant"]
    /\ UNCHANGED <<collection, chat_memory, args, retrieval, prompt, messages,
                   response, answer, n_calls, completed, cleared, ix_vars, aux_vars>>

\* line 105
StoreUser(p) ==
    /\ pc[p] = "store_user"
    /\ \E now \in clock..Min(clock + 1, MaxClock) :
         /\ clock' = now
         /\ history_collection' =
                store_message(history_collection, args[p].session_id, "user",
                              args[p].user_query, now)
    /\ pc' = [pc EXCEPT ![p] = "store_assistant"]
    /\ UNCHANGED <<collection, chat_memory, args, retrieval, prompt, messages,
                   response, answer, n_calls, completed, cleared, ix_vars, aux_vars>>

\* line 106
StoreAssistant(p) ==
    /\ pc[p] = "store_assistant"
    /\ \E now \in clock..Min(clock + 1, MaxClock) :
         /\ clock' = now
         /\ history_collection' =
                store_message(history_collection, args[p].session_id,
                              "assistant", answer[p], now)
    /\ pc' = [pc EXCEPT ![p] = "return"]
    /\ UNCHANGED <<collection, chat_memory, args, retrieval, prompt, messages,
                   response, answer, n_calls, completed, cleared, ix_vars, aux_vars>>

\* line 108, or the exception leaving the call: the frame is gone
Return(p) ==
    /\ pc[p] \in {"return", "raised", "searched"}
    /\ completed' = IF pc[p] = "return" /\ UsesMemory(p)
                    THEN [completed EXCEPT ![args[p].session_id] = @ + 1]
                    ELSE completed
    /\ pc' = [pc EXCEPT ![p] = "idle"]
    /\ args' = [args EXCEPT ![p] = NoArgs]
    /\ prompt' = [prompt EXCEPT ![p] = None]
    /\ messages' = [messages EXCEPT ![p] = <<>>]
    /\ response' = [response EXCEPT ![p] = NoResponse]
    /\ answer' = [answer EXCEPT ![p] = None]
    /\ retrieval' = [retrieval EXCEPT ![p] = NoRetrieval]
    /\ request' = [request EXCEPT ![p] = NoRequest]
    /\ UNCHANGED <<collection, history_collection, clock, chat_memory, n_calls,
                   cleared, ix_vars, call, loader, service>>

\* ChatMemory.clear_history, called while no generate is running
ClearHistory(s) ==
    /\ chat_memory
    /\ \A p \in Procs : pc[p] = "idle"
    /\ history_collection' = clear_history(history_collection, s)
    /\ cleared' = [cleared EXCEPT ![s] = TRUE]
    /\ UNCHANGED <<collection, clock, chat_memory, pc, args, retrieval, prompt,
                   messages, response, answer, n_calls, completed, ix_vars, aux_vars>>

\* a generate call of a caller: the k-th call asks the k-th query, and the
\* rerank service answers within its contract
GenerateCall(p) ==
    /\ pc[p] = "idle"
    /\ n_calls < MaxCalls
    /\ LET q == Queries[n_calls + 1]
           results == search(collection, q, NoFilter, NUM_CANDIDATES,
                             VECTOR_SEARCH_LIMIT)
       IN  \E s \in SessionIds, r \in BOOLEAN :
             \E reranked \in IF r THEN Rankings(results, RERANK_TOP_K) ELSE {<<>>} :
                Generate(p, q, s, r, reranked)
    /\ UNCHANGED request

Next ==
    \/ \E p \in SeqProcs :
          \/ GenerateCall(p)
          \/ History(p)
          \/ Completion(p)
          \/ StoreUser(p)
          \/ StoreAssistant(p)
          \/ Return(p)
    \/ \E s \in Sessions : ClearHistory(s)

Spec == Init /\ [][Next]_vars

-----------------------------------------------------------------------------
(* Concurrent generate calls: processes on one store, no lock in the code *)

\* a process calls generate on session s1
ConcurrentCall(p) ==
    /\ pc[p] = "idle"
    /\ n_calls < MaxCalls
    /\ Generate(p, Queries[n_calls + 1], "s1", FALSE, <<>>)
    /\ UNCHANGED request

\* line 105 as in StoreUser; the clock runs up to MaxStamp here, so that the
\* inserts of two calls can all get different timestamps
ConcurrentStoreUser(p) ==
    /\ pc[p] = "store_user"
    /\ \E now \in clock..Min(clock + 1, MaxStamp) :
         /\ clock' = now
         /\ history_collection' =
                store_message(history_collection, args[p].session_id, "user",
                              args[p].user_query, now)
    /\ pc' = [pc EXCEPT ![p] = "store_assistant"]
    /\ UNCHANGED <<collection, chat_memory, args, retrieval, prompt, messages,
                   response, answer, n_calls, completed, cleared, ix_vars, aux_vars>>

\* line 106 as in StoreAssistant
ConcurrentStoreAssistant(p) ==
    /\ pc[p] = "store_assistant"
    /\ \E now \in clock..Min(clock + 1, MaxStamp) :
         /\ clock' = now
         /\ history_collection' =
                store_message(history_collection, args[p].session_id,
                              "assistant", answer[p], now)
    /\ pc' = [pc EXCEPT ![p] = "return"]
    /\ UNCHANGED <<collection, chat_memory, args, retrieval, prompt, messages,
                   response, answer, n_calls, completed, cleared, ix_vars, aux_vars>>

InitConcurrent == Init /\ chat_memory /\ collection = KnowledgeBase

\* the steps of the callers interleave freely
NextConcurrent ==
    \E p \in Procs :
       \/ ConcurrentCall(p)
       \/ History(p)
       \/ Completion(p)
       \/ ConcurrentStoreUser(p)
       \/ ConcurrentStoreAssistant(p)
       \/ Return(p)

SpecConcurrent == InitConcurrent /\ [][NextConcurrent]_vars

-----------------------------------------------------------------------------
(* A generate call that stops, and a clear_history while a call is in flight *)

\* the call stops after its completion call, before line 105 or before line
\* 106: the process is killed, or the insert_one of store_message raises;
\* generate catches nothing and undoes nothing
Stop(p) ==
    /\ pc[p] \in {"store_user", "store_assistant"}
    /\ pc' = [pc EXCEPT ![p] = "raised"]
    /\ UNCHANGED <<collection, history_collection, clock, chat_memory, args,
                   retrieval, prompt, messages, response, answer, n_calls,
                   completed, cleared, ix_vars, aux_vars>>

\* clear_history(s) by another process on the same store, wherever the
\* generate calls stand; `call` keeps the queries of the calls on s that
\* were in flight when it ran
ClearInFlight(s) ==
    /\ chat_memory
    /\ history_collection' = clear_history(history_collection, s)
    /\ cleared' = [cleared EXCEPT ![s] = TRUE]
    /\ call' = [op |-> "clear_history", session_id |-> s,
                in_flight |-> {args[p].user_query :
                                 p \in {q \in Procs : /\ pc[q] # "idle"
                                                      /\ args[q].session_id = s}},
                appended |-> call.appended]
    /\ UNCHANGED <<collection, clock, chat_memory, pc, args, retrieval, prompt,
                   messages, response, answer, n_calls, completed, ix_vars,
                   request, loader, service>>

InitFaults == Init /\ chat_memory /\ collection = KnowledgeBase

NextFaults ==
    \/ \E p \in SeqProcs :
          \/ ConcurrentCall(p)
          \/ History(p)
          \/ Completion(p)
          \/ StoreUser(p)
          \/ StoreAssistant(p)
          \/ Stop(p)
          \/ Return(p)
    \/ \E s \in Sessions : ClearInFlight(s)

SpecFaults == InitFaults /\ [][NextFaults]_vars

-----------------------------------------------------------------------------
(* The /query endpoint *)

Filters == {NoFilter, [productName |-> "X"], [productName |-> "Z"]}

\* the QueryRequest bodies of the k-th request
QueryRequests(k) ==
    [query : {Queries[k]}, session_id : {None, "s1"}, use_rerank : BOOLEAN,
     filter_criteria : Filters]

\* query_rag, lines 195-204: the handler takes the request and calls
\* generator.generate with its query, session_id and use_rerank
QueryRag(p, req, reranked) ==
    /\ request' = [request EXCEPT ![p] = req]
    /\ Generate(p, req.query, req.session_id, req.use_rerank, reranked)

QueryRagCall(p) ==
    /\ pc[p] = "idle"
    /\ n_calls < MaxCalls
    /\ \E req \in QueryRequests(n_calls + 1) :
         LET results == search(collection, req.query, NoFilter, NUM_CANDIDATES,
                               VECTOR_SEARCH_LIMIT)
         IN  \E reranked \in IF req.use_rerank
                              THEN Rankings(results, RERANK_TOP_K) ELSE {<<>>} :
                QueryRag(p, req, reranked)

InitApi == Init /\ collection = KnowledgeBase

NextApi ==
    \E p \in SeqProcs :
        \/ QueryRagCall(p)
        \/ History(p)
        \/ Completion(p)
        \/ StoreUser(p)
        \/ StoreAssistant(p)
        \/ Return(p)

SpecApi == InitApi /\ [][NextApi]_vars

-----------------------------------------------------------------------------
(* A direct call of VectorRetriever.search_with_rerank *)

\* lines 107-141; `reranked` is what the rerank service answers if it is called
SearchWithRerank(p, q, filter, reranked) ==
    /\ pc[p] = "idle"
    /\ LET results == search(collection, q, filter, NUM_CANDIDATES,
                             VECTOR_SEARCH_LIMIT)
       IN  /\ reranked \in Reranked(results, RERANK_TOP_K)
           /\ retrieval' = [retrieval EXCEPT ![p] =
                  [op |-> "search_with_rerank",
                   user_query |-> q, filter_criteria |-> filter,
                   issued |-> vector_search_stage(filter, NUM_CANDIDATES,
                                                  VECTOR_SEARCH_LIMIT),
                   results |-> results, reranked |-> reranked,
                   returned |-> search_with_rerank(results, reranked)]]
    /\ pc' = [pc EXCEPT ![p] = "searched"]
    /\ UNCHANGED <<collection, history_collection, clock, chat_memory, args,
                   prompt, messages, response, answer, n_calls, completed,
                   cleared, ix_vars, aux_vars>>

SearchCall(p) ==
    /\ pc[p] = "idle"
    /\ \E k \in 1..MaxCalls, filter \in Filters :
        \E reranked \in Reranked(search(collection, Queries[k], filter,
                                        NUM_CANDIDATES, VECTOR_SEARCH_LIMIT),
                                 RERANK_TOP_K) :
            SearchWithRerank(p, Queries[k], filter, reranked)

Candidates == {<<>>, <<1>>}
Limits == {<<>>, <<1>>}

\* VectorRetriever.search, lines 44-84; the store refuses a stage whose
\* numCandidates is below its limit
Search(p, q, filter, num_candidates, limit) ==
    /\ pc[p] = "idle"
    /\ LET nc == Default(num_candidates, NUM_CANDIDATES)
           lim == Default(limit, VECTOR_SEARCH_LIMIT)
           stage == vector_search_stage(filter, nc, lim)
           results == IF stage.numCandidates < stage.limit THEN <<>>
                      ELSE search(collection, q, filter, nc, lim)
       IN  retrieval' = [retrieval EXCEPT ![p] =
              [op |-> "search",
               user_query |-> q, filter_criteria |-> filter,
               issued |-> stage,
               results |-> results, reranked |-> <<>>,
               returned |-> [raised |-> stage.numCandidates < stage.limit,
                             rerank_called |-> FALSE, value |-> results]]]
    /\ pc' = [pc EXCEPT ![p] = "searched"]
    /\ UNCHANGED <<collection, history_collection, clock, chat_memory, args,
                   prompt, messages, response, answer, n_calls, completed,
                   cleared, ix_vars, aux_vars>>

SearchDirectCall(p) ==
    /\ pc[p] = "idle"
    /\ \E k \in 1..MaxCalls, filter \in Filters,
          num_candidates \in Candidates, limit \in Limits :
            Search(p, Queries[k], filter, num_candidates, limit)

NextRetriever ==
    \E p \in SeqProcs : SearchCall(p) \/ SearchDirectCall(p) \/ Return(p)

SpecRetriever == Init /\ [][NextRetriever]_vars

-----------------------------------------------------------------------------
(* Direct calls of ChatMemory *)

MessageTexts == <<"m1", "m2", "m3", "m4", "m5">>

\* store_message(s, role, content): datetime.now() is the wall clock of the
\* writer, so the timestamps of successive inserts are in no fixed order
MemStore(s, role, content, now) ==
    /\ history_collection' = store_message(history_collection, s, role, content, now)
    /\ call' = [op |-> "store_message", session_id |-> s,
                appended |-> [call.appended EXCEPT ![s] =
                                 Append(@, [role |-> role, content |-> content])]]
    /\ UNCHANGED <<collection, clock, chat_memory, pc, args, retrieval, prompt,
                   messages, response, answer, n_calls, completed, cleared,
                   request, loader, service, ix_vars>>

\* retrieve_history(s)
MemHistory(s) ==
    /\ \E cursor \in Cursors(history_collection, s) :
         call' = [op |-> "retrieve_history", session_id |-> s,
                    value |-> retrieve_history(history_collection, cursor),
                  appended |-> call.appended]
    /\ UNCHANGED <<gen_vars, request, loader, service, ix_vars>>

\* clear_history(s)
MemClear(s) ==
    /\ history_collection' = clear_history(history_collection, s)
    /\ call' = [op |-> "clear_history", session_id |-> s,
                before |-> history_collection,
                appended |-> [call.appended EXCEPT ![s] = <<>>]]
    /\ UNCHANGED <<collection, clock, chat_memory, pc, args, retrieval, prompt,
                   messages, response, answer, n_calls, completed, cleared,
                   request, loader, service, ix_vars>>

\* the k-th message stored is a user's when k is odd, an assistant's when even
MemStoreCall ==
    /\ Len(history_collection) < MaxMessages
    /\ LET k == Len(history_collection) + 1
       IN  \E s \in Sessions, now \in 1..MaxStamp :
              MemStore(s, IF k % 2 = 1 THEN "user" ELSE "assistant",
                       MessageTexts[k], now)

InitMemory == Init /\ chat_memory /\ collection = KnowledgeBase

NextMemory ==
    \/ MemStoreCall
    \/ \E s \in Sessions : MemHistory(s) \/ MemClear(s)

SpecMemory == InitMemory /\ [][NextMemory]_vars

-----------------------------------------------------------------------------
(* The API service: settings, startup_event and the guards of the endpoints *)

\* settings.py 18, 25: the two settings read from the environment with ""
\* as default
Environments ==
    [MONGODB_URI : {"", "mongodb://host"}, PROXY_ENDPOINT : {"", "https://proxy"}]

\* Settings.validate: passes unless MONGODB_URI is empty
validate(settings) == settings.MONGODB_URI # ""

\* the statements of startup_event's try block, in order
StartupSteps ==
    <<"validate", "MongoDBClient", "ping", "VoyageEmbeddings", "VectorRetriever",
      "create_session_index", "ChatMemory", "AnswerGenerator">>

\* the module global a statement of startup_event assigns
Assigns(step) ==
    CASE step = "MongoDBClient" -> {"mongo_client"}
      [] step = "VoyageEmbeddings" -> {"embeddings"}
      [] step = "VectorRetriever" -> {"retriever"}
      [] step = "ChatMemory" -> {"chat_memory"}
      [] step = "AnswerGenerator" -> {"generator"}
      [] OTHER -> {}

\* whether a statement may raise: validate by its test; the statements that
\* talk to the store or read the embedding credential by their environment
StepRaises(step, settings) ==
    IF step = "validate" THEN {~validate(settings)}
    ELSE IF step \in {"ping", "VoyageEmbeddings", "create_session_index"} THEN BOOLEAN
    ELSE {FALSE}

\* the global each endpoint tests before it does anything
Guards ==
    [query_rag |-> "generator", vector_search |-> "retriever",
     clear_history |-> "chat_memory", get_history |-> "chat_memory",
     get_stats |-> "mongo_client"]

Endpoints == DOMAIN Guards

\* the try block of an endpoint: the guard raises HTTPException(503); the
\* work raises when the store fails, and generate raises in requests.post
\* when there is no PROXY_ENDPOINT to post to
TryBlock(endpoint, globals, settings, works) ==
    IF Guards[endpoint] \notin globals
    THEN [raised |-> TRUE, exception |-> "HTTPException", status_code |-> 503,
          used |-> None]
    ELSE IF endpoint = "query_rag" /\ settings.PROXY_ENDPOINT = ""
    THEN [raised |-> TRUE, exception |-> "MissingSchema", status_code |-> 0,
          used |-> Guards[endpoint]]
    ELSE IF ~works
    THEN [raised |-> TRUE, exception |-> "PyMongoError", status_code |-> 0,
          used |-> Guards[endpoint]]
    ELSE [raised |-> FALSE, exception |-> None, status_code |-> 200,
          used |-> Guards[endpoint]]

\* `except Exception as e: raise HTTPException(status_code=500, ...)` around
\* the try block: HTTPException is an Exception, the guard's included
Endpoint(endpoint, globals, settings, works) ==
    LET tried == TryBlock(endpoint, globals, settings, works)
    IN  [endpoint |-> endpoint,
         status_code |-> IF tried.raised THEN 500 ELSE tried.status_code,
         detail |-> tried.exception,
         used |-> tried.used]

\* the module is imported: the settings are read, the globals are None
ImportApi ==
    /\ service.pc = "off"
    /\ \E env \in Environments :
          service' = [pc |-> "imported", settings |-> env, step |-> 0,
                      globals |-> {}, handled |-> <<>>]
    /\ UNCHANGED <<gen_vars, ix_vars, request, call, loader>>

\* startup_event, one statement at a time; an exception is raised again
\* (lines 143-145) and the server does not come up
StartupStep ==
    /\ service.pc \in {"imported", "startup"}
    /\ service.step < Len(StartupSteps)
    /\ LET name == StartupSteps[service.step + 1]
       IN  \E raises \in StepRaises(name, service.settings) :
              service' =
                 IF raises
                 THEN [service EXCEPT !.pc = "failed"]
                 ELSE [service EXCEPT
                         !.step = @ + 1,
                         !.globals = @ \cup Assigns(name),
                         !.pc = IF service.step + 1 = Len(StartupSteps)
                                THEN "serving" ELSE "startup"]
    /\ UNCHANGED <<gen_vars, ix_vars, request, call, loader>>

\* a request is handled: by the server once startup_event is through, or by
\* the app run without its startup event (pc "imported")
HandleRequest ==
    /\ service.pc \in {"imported", "serving"}
    /\ \E endpoint \in Endpoints, works \in BOOLEAN :
          service' = [service EXCEPT
                        !.handled = Endpoint(endpoint, service.globals,
                                             service.settings, works)]
    /\ UNCHANGED <<gen_vars, ix_vars, request, call, loader>>

InitService == Init /\ chat_memory /\ collection = KnowledgeBase

NextService == ImportApi \/ StartupStep \/ HandleRequest

SpecService == InitService /\ [][NextService]_vars

-----------------------------------------------------------------------------
(* DataProcessor.process_documents *)

\* the documents of a data file; a text is the sequence of the pieces the
\* splitter cuts it into
SourceDocs ==
    {[body |-> <<"a", "", "b">>, title |-> "T1"],
     [body |-> <<"c">>, title |-> "T2"],
     [body |-> <<>>, title |-> "T3"],
     [title |-> "T4"]}

\* RecursiveCharacterTextSplitter.split_text: the pieces that are not empty
split_text(text) == SelectSeq(text, LAMBDA piece : piece # "")

\* TextChunker.get_chunks; the caller has checked that doc has text_field
get_chunks(doc, text_field) == split_text(doc[text_field])

\* what the embedding service may answer the j-th document-mode call for n
\* chunks: a failure, or vectors, one per chunk by its contract
EmbedResponses(n, j) ==
    {[ok |-> FALSE, embeddings |-> <<>>]}
    \cup {[ok |-> TRUE, embeddings |-> [k \in 1..m |-> 10 * j + k]] :
            m \in {x \in {n - 1, n, n + 1} : x >= 0}}

\* a variant that sends the first chunk of the document only
EmbedChunks_FirstOnly(chunks) ==
    [content |-> [k \in 1..Min(1, Len(chunks)) |-> chunks[k]],
     input_type |-> "document"]

\* line 64: the one call get_embeddings(chunks, "document") of a document
EmbedChunks(chunks) == [content |-> chunks, input_type |-> "document"]

\* a variant that gives every chunk the first embedding
ChunkDocs_FirstEmbedding(doc, text_field, chunks, chunk_embeddings) ==
    [k \in 1..Min(Len(chunks), Len(chunk_embeddings)) |->
        [f \in DOMAIN doc \cup {text_field, "embedding"} |->
            IF f = "embedding" THEN chunk_embeddings[1]
            ELSE IF f = text_field THEN chunks[k]
            ELSE doc[f]]]

\* lines 67-71: a copy of doc per pair of zip(chunks, chunk_embeddings)
ChunkDocs(doc, text_field, chunks, chunk_embeddings) ==
    [k \in 1..Min(Len(chunks), Len(chunk_embeddings)) |->
        [f \in DOMAIN doc \cup {text_field, "embedding"} |->
            IF f = "embedding" THEN chunk_embeddings[k]
            ELSE IF f = text_field THEN chunks[k]
            ELSE doc[f]]]

\* a variant without line 68's copy: chunk_doc is doc itself, every pair
\* writes its two fields into the one object
ZipLoop_NoCopy(heap, ref, text_field, chunks, chunk_embeddings) ==
    LET new == ChunkDocs(heap[ref], text_field, chunks, chunk_embeddings)
    IN  [heap |-> IF new = <<>> THEN heap ELSE [heap EXCEPT ![ref] = new[Len(new)]],
         refs |-> [k \in DOMAIN new |-> ref]]

\* lines 67-71 on the objects: dicts live in heap and lists hold their
\* places in it; every doc.copy() is a new object, and the two assignments
\* are made on it
ZipLoop(heap, ref, text_field, chunks, chunk_embeddings) ==
    LET new == ChunkDocs(heap[ref], text_field, chunks, chunk_embeddings)
    IN  [heap |-> heap \o new,
         refs |-> [k \in DOMAIN new |-> Len(heap) + k]]

\* what the caller gets when process_documents raises: the exception, and
\* no list; the frame of the call, embedded_docs in it, is gone
LoaderRaises(exception) == [raised |-> TRUE, value |-> <<>>, exception |-> exception]

\* lines 56-58: the call process_documents(docs, text_field); the dicts of
\* docs are the first objects of the heap, given keeps them as they were
ProcessDocuments(docs, text_field) ==
    /\ loader.pc = "idle"
    /\ loader' = [pc |-> "loop", heap |-> docs, given |-> docs,
                  docs |-> [j \in DOMAIN docs |-> j], text_field |-> text_field,
                  i |-> 0, embedded_docs |-> <<>>, calls |-> <<>>,
                  returned |-> <<>>]
    /\ UNCHANGED <<gen_vars, ix_vars, request, call, service>>

\* lines 59-71: one turn of the loop, for the document after the i done
ProcessDocument ==
    /\ loader.pc = "loop"
    /\ loader.i < Len(loader.docs)
    /\ LET doc == loader.heap[loader.docs[loader.i + 1]]
       IN  IF loader.text_field \notin DOMAIN doc
           THEN loader' = [loader EXCEPT
                             !.pc = "raised",
                             !.returned = LoaderRaises([type |-> "KeyError",
                                                        args |-> <<loader.text_field>>])]
           ELSE LET chunks == get_chunks(doc, loader.text_field)
                    sent == EmbedChunks(chunks)
                IN  \E resp \in EmbedResponses(Len(chunks), loader.i + 1) :
                       LET made == ZipLoop(loader.heap, loader.docs[loader.i + 1],
                                           loader.text_field, chunks, resp.embeddings)
                       IN
                       loader' =
                          IF ~resp.ok
                          THEN [loader EXCEPT
                                  !.pc = "raised",
                                  !.returned = LoaderRaises([type |-> "Exception",
                                                             args |-> <<>>]),
                                  !.calls = Append(@, [content |-> sent.content,
                                                       input_type |-> sent.input_type,
                                                       ok |-> FALSE,
                                                       embeddings |-> <<>>])]
                          ELSE [loader EXCEPT
                                  !.i = @ + 1,
                                  !.calls = Append(@, [content |-> sent.content,
                                                       input_type |-> sent.input_type,
                                                       ok |-> TRUE,
                                                       embeddings |-> resp.embeddings]),
                                  !.heap = made.heap,
                                  !.embedded_docs = @ \o made.refs]
    /\ UNCHANGED <<gen_vars, ix_vars, request, call, service>>

\* line 74: return embedded_docs
ProcessReturn ==
    /\ loader.pc = "loop"
    /\ loader.i = Len(loader.docs)
    /\ loader' = [loader EXCEPT
                     !.pc = "returned",
                     !.returned = [raised |-> FALSE, value |-> loader.embedded_docs,
                                   exception |-> <<>>]]
    /\ UNCHANGED <<gen_vars, ix_vars, request, call, service>>

ProcessCall ==
    \E docs \in UNION {[1..n -> SourceDocs] : n \in 0..MaxDocs} :
        ProcessDocuments(docs, "body")

InitLoader == Init /\ chat_memory /\ collection = KnowledgeBase

NextLoader == ProcessCall \/ ProcessDocument \/ ProcessReturn

SpecLoader == InitLoader /\ [][NextLoader]_vars

-----------------------------------------------------------------------------
(* Vector search index management *)

\* list(collection.list_search_indexes()): the indexes the store lists, each
\* with its status
list_search_indexes(indexes) ==
    {[name |-> n, status |-> indexes[n]] : n \in {m \in IndexNames : indexes[m] # "ABSENT"}}

\* any(idx.get('name') == index_name for idx in ...)
index_exists(listing, index_name) == \E idx \in listing : idx.name = index_name

\* a variant that keeps waiting on a READY index
check_status_ReadyWaits(listing, index_name) ==
    IF \E idx \in listing :
          idx.name = index_name /\ idx.status \in {"FAILED", "DELETING"}
    THEN "failed"
    ELSE "wait"

\* a variant that keeps waiting on a FAILED index
check_status_FailedWaits(listing, index_name) ==
    IF \E idx \in listing : idx.name = index_name /\ idx.status = "READY"
    THEN "ready"
    ELSE IF \E idx \in listing : idx.name = index_name /\ idx.status = "DELETING"
    THEN "failed"
    ELSE "wait"

\* the loop body of check_index_ready, lines 109-118: what one listing decides
check_status(listing, index_name) ==
    IF \E idx \in listing : idx.name = index_name /\ idx.status = "READY"
    THEN "ready"
    ELSE IF \E idx \in listing :
               idx.name = index_name /\ idx.status \in {"FAILED", "DELETING"}
    THEN "failed"
    ELSE "wait"

\* what a listing shows of the index: its status, or that it is missing
Observed(listing, index_name) ==
    IF index_exists(listing, index_name)
    THEN (CHOOSE idx \in listing : idx.name = index_name).status
    ELSE "ABSENT"

\* create_vector_search_index, lines 71-75: the first listing
ListIndexes ==
    /\ ix_pc = "idle"
    /\ LET exists == index_exists(list_search_indexes(search_indexes),
                                  ATLAS_VECTOR_SEARCH_INDEX_NAME)
       IN  /\ ix_pc' = IF exists THEN "drop" ELSE "create"
           /\ ix_log' = [ix_log EXCEPT !.existed = exists, !.listed = exists]
    /\ UNCHANGED <<search_indexes, attempts, ix_result, gen_vars, aux_vars>>

\* line 78: collection.drop_search_index(index_name)
DropSearchIndex ==
    /\ ix_pc = "drop"
    /\ ix_log' = [ix_log EXCEPT !.order = Append(@, "drop")]
    /\ IF search_indexes[ATLAS_VECTOR_SEARCH_INDEX_NAME] = "ABSENT"
       THEN /\ ix_pc' = "raised"
            /\ UNCHANGED search_indexes
       ELSE /\ ix_pc' = "drop_wait"
            /\ search_indexes' = [search_indexes EXCEPT
                                    ![ATLAS_VECTOR_SEARCH_INDEX_NAME] = "DELETING"]
    /\ UNCHANGED <<attempts, ix_result, gen_vars, aux_vars>>

\* a variant that goes on to the create without waiting
WaitForDeletion_NoWait ==
    /\ ix_pc = "drop_wait"
    /\ LET exists == index_exists(list_search_indexes(search_indexes),
                                  ATLAS_VECTOR_SEARCH_INDEX_NAME)
       IN  /\ ix_pc' = "create"
           /\ ix_log' = [ix_log EXCEPT !.listed = exists]
    /\ UNCHANGED <<search_indexes, attempts, ix_result, gen_vars, aux_vars>>

\* line 81: the condition of the wait for the deletion
WaitForDeletion ==
    /\ ix_pc = "drop_wait"
    /\ LET exists == index_exists(list_search_indexes(search_indexes),
                                  ATLAS_VECTOR_SEARCH_INDEX_NAME)
       IN  /\ ix_pc' = IF exists THEN "drop_sleep" ELSE "create"
           /\ ix_log' = [ix_log EXCEPT !.listed = exists]
    /\ UNCHANGED <<search_indexes, attempts, ix_result, gen_vars, aux_vars>>

\* line 82: time.sleep(1)
DeletionSleep ==
    /\ ix_pc = "drop_sleep"
    /\ ix_pc' = "drop_wait"
    /\ UNCHANGED <<search_indexes, attempts, ix_result, ix_log, gen_vars, aux_vars>>

\* line 88: collection.create_search_index(index_definition)
CreateSearchIndex ==
    /\ ix_pc = "create"
    /\ ix_log' = [ix_log EXCEPT !.order = Append(@, "create")]
    /\ IF search_indexes[ATLAS_VECTOR_SEARCH_INDEX_NAME] = "ABSENT"
       THEN /\ ix_pc' = "check"
            /\ search_indexes' = [search_indexes EXCEPT
                                    ![ATLAS_VECTOR_SEARCH_INDEX_NAME] = "CREATING"]
       ELSE /\ ix_pc' = "raised"
            /\ UNCHANGED search_indexes
    /\ attempts' = 0
    /\ UNCHANGED <<ix_result, gen_vars, aux_vars>>

\* check_index_ready, lines 107-118: one listing and what it decides
CheckIndexReady ==
    /\ ix_pc = "check"
    /\ LET listing == list_search_indexes(search_indexes)
           status == Observed(listing, ATLAS_VECTOR_SEARCH_INDEX_NAME)
           decision == check_status(listing, ATLAS_VECTOR_SEARCH_INDEX_NAME)
       IN  /\ ix_log' = [ix_log EXCEPT
                  !.polls = @ + 1,
                  !.seen = IF Len(@) < MaxSeen THEN Append(@, status) ELSE @,
                  !.first_ready =
                      IF @ = 0 /\ status = "READY" THEN ix_log.polls + 1 ELSE @,
                  !.first_failed =
                      IF @ = 0 /\ status \in {"FAILED", "DELETING"}
                      THEN ix_log.polls + 1 ELSE @]
           /\ ix_pc' = IF decision = "wait" THEN "check_sleep" ELSE "done"
           /\ ix_result' = (decision = "ready")
    /\ UNCHANGED <<search_indexes, attempts, gen_vars, aux_vars>>

\* a variant whose loop condition is attempts <= max_attempts
CheckSleep_OneMore ==
    /\ ix_pc = "check_sleep"
    /\ attempts' = attempts + 1
    /\ ix_pc' = IF attempts' <= max_attempts THEN "check" ELSE "done"
    /\ ix_result' = FALSE
    /\ UNCHANGED <<search_indexes, ix_log, gen_vars, aux_vars>>

\* lines 120-124 and 107: the sleep, the count, the loop condition
CheckSleep ==
    /\ ix_pc = "check_sleep"
    /\ attempts' = attempts + 1
    /\ ix_pc' = IF attempts' < max_attempts THEN "check" ELSE "done"
    /\ ix_result' = FALSE
    /\ UNCHANGED <<search_indexes, ix_log, gen_vars, aux_vars>>

\* IndexManager.create_basic_index: every step of the one call
IndexStep ==
    \/ ListIndexes
    \/ DropSearchIndex
    \/ WaitForDeletion
    \/ DeletionSleep
    \/ CreateSearchIndex
    \/ CheckIndexReady
    \/ CheckSleep

\* the store and its other clients: an index is created, built or failed,
\* dropped, and gone
StoreCreates(n) ==
    /\ search_indexes[n] = "ABSENT"
    /\ search_indexes' = [search_indexes EXCEPT ![n] = "CREATING"]
    /\ UNCHANGED <<ix_pc, attempts, ix_result, ix_log, gen_vars, aux_vars>>

StoreBuilds(n) ==
    /\ search_indexes[n] = "CREATING"
    /\ \E st \in {"READY", "FAILED"} :
         search_indexes' = [search_indexes EXCEPT ![n] = st]
    /\ UNCHANGED <<ix_pc, attempts, ix_result, ix_log, gen_vars, aux_vars>>

StoreDrops(n) ==
    /\ search_indexes[n] \in {"CREATING", "READY", "FAILED"}
    /\ search_indexes' = [search_indexes EXCEPT ![n] = "DELETING"]
    /\ UNCHANGED <<ix_pc, attempts, ix_result, ix_log, gen_vars, aux_vars>>

StoreDeletes(n) ==
    /\ search_indexes[n] = "DELETING"
    /\ search_indexes' = [search_indexes EXCEPT ![n] = "ABSENT"]
    /\ UNCHANGED <<ix_pc, attempts, ix_result, ix_log, gen_vars, aux_vars>>

InitIndex == Init /\ chat_memory /\ collection = KnowledgeBase

NextIndex ==
    \/ IndexStep
    \/ \E n \in IndexNames :
          StoreCreates(n) \/ StoreBuilds(n) \/ StoreDrops(n) \/ StoreDeletes(n)

SpecIndex == InitIndex /\ [][NextIndex]_vars

\* a running create_basic_index takes its next step; the store owes nothing
SpecIndexFair == SpecIndex /\ WF_vars(IndexStep)

-----------------------------------------------------------------------------
(* ingest_data.main: load, process, delete, insert, create the index *)

\* lines 47-50: the data file is not there; main prints and returns
IngestNoFile ==
    /\ loader.pc = "idle"
    /\ loader' = [pc |-> "no_file"]
    /\ UNCHANGED <<gen_vars, ix_vars, request, call, service>>

\* line 53: load_json_data raises (unreadable file, not JSON)
IngestLoadRaises ==
    /\ loader.pc = "idle"
    /\ loader' = [pc |-> "load_raised"]
    /\ UNCHANGED <<gen_vars, ix_vars, request, call, service>>

\* a variant that clears the collection before the documents are processed
IngestDelete_Early ==
    /\ loader.pc = "loop"
    /\ loader.i = 0
    /\ collection # <<>>
    /\ collection' = <<>>
    /\ UNCHANGED loader
    /\ UNCHANGED <<history_collection, clock, chat_memory, pc, args, retrieval,
                   prompt, messages, response, answer, n_calls, completed, cleared,
                   ix_vars, request, call, service>>

\* line 61: delete_all_documents(), once process_documents has returned
IngestDelete ==
    /\ loader.pc = "returned"
    /\ collection' = <<>>
    /\ loader' = [loader EXCEPT !.pc = "deleted"]
    /\ UNCHANGED <<history_collection, clock, chat_memory, pc, args, retrieval,
                   prompt, messages, response, answer, n_calls, completed, cleared,
                   ix_vars, request, call, service>>

\* line 65: insert_documents(embedded_docs); insert_many refuses an empty list
IngestInsert ==
    /\ loader.pc = "deleted"
    /\ IF loader.returned.value = <<>>
       THEN /\ loader' = [loader EXCEPT !.pc = "insert_raised"]
            /\ UNCHANGED collection
       ELSE /\ loader' = [loader EXCEPT !.pc = "inserted"]
            /\ collection' = [x \in DOMAIN loader.returned.value |->
                                 loader.heap[loader.returned.value[x]]]
    /\ UNCHANGED <<history_collection, clock, chat_memory, pc, args, retrieval,
                   prompt, messages, response, answer, n_calls, completed, cleared,
                   ix_vars, request, call, service>>

\* lines 72-73: create_basic_index(), step by step
IngestIndexStep ==
    /\ loader.pc = "inserted"
    /\ IndexStep

\* the store's side of the index named in the settings: an earlier run has
\* left an index, and the store carries out what it was asked
IngestStore ==
    \/ loader.pc = "idle" /\ StoreCreates(ATLAS_VECTOR_SEARCH_INDEX_NAME)
    \/ StoreBuilds(ATLAS_VECTOR_SEARCH_INDEX_NAME)
    \/ StoreDeletes(ATLAS_VECTOR_SEARCH_INDEX_NAME)

InitIngest == Init /\ chat_memory /\ collection = KnowledgeBase

NextIngest ==
    \/ IngestNoFile
    \/ IngestLoadRaises
    \/ ProcessCall
    \/ ProcessDocument
    \/ ProcessReturn
    \/ IngestDelete
    \/ IngestInsert
    \/ IngestIndexStep
    \/ IngestStore

SpecIngest == InitIngest /\ [][NextIngest]_vars

-----------------------------------------------------------------------------
(* Properties of generate *)

\* C1: with a session and a chat memory, the sequence of messages generate
\* sends to the completion service is the single instruction message, then
\* every stored message of the session as (role, content) in ascending
\* timestamp order, then the single message of the user's query.
C1_MessageSequence ==
    \A p \in Procs :
        (pc[p] = "post" /\ args[p].session_id \in Sessions /\ chat_memory) =>
            LET m == messages[p]
                n == Len(m)
                stored == {i \in DOMAIN history_collection :
                              history_collection[i].session_id = args[p].session_id}
            IN  /\ n = Cardinality(stored) + 2
                /\ m[1] = [role |-> "user", content |-> prompt[p]]
                /\ m[n] = [role |-> "user", content |-> args[p].user_query]
                /\ \E c \in [1..(n - 2) -> stored] :
                     /\ \A i, j \in 1..(n - 2) : i # j => c[i] # c[j]
                     /\ \A i, j \in 1..(n - 2) :
                           i < j => history_collection[c[i]].timestamp
                                       <= history_collection[c[j]].timestamp
                     /\ \A i \in 1..(n - 2) :
                           m[i + 1] = [role |-> history_collection[c[i]].role,
                                       content |-> history_collection[c[i]].content]

\* C1 happens: a request of a second call on a session, after one stored pair
C1_Witness ==
    \E p \in Procs :
        /\ pc[p] = "post"
        /\ args[p].session_id = "s1"
        /\ chat_memory
        /\ Len(messages[p]) = 4
        /\ messages[p][2] = [role |-> "user", content |-> "q1"]
        /\ messages[p][3].role = "assistant"
        /\ messages[p][4] = [role |-> "user", content |-> "q2"]

\* C2: a generate call with a session and a chat memory appends exactly two
\* messages, the user's query and then the assistant's answer, to that
\* session and to no other; after k such calls on a session never cleared,
\* one after the other, the history of the session has exactly 2k messages.
C2_TwoMessagesPerCall ==
    /\ \A s \in Sessions :
          ~cleared[s] =>
             LET stored == {i \in DOMAIN history_collection :
                               history_collection[i].session_id = s}
                 running == {p \in Procs : args[p].session_id = s /\ chat_memory}
                 written(p) == IF pc[p] = "store_assistant" THEN 1
                               ELSE IF pc[p] = "return" THEN 2
                               ELSE 0
             IN  /\ Cardinality(running) <= 1
                 /\ \A p \in running :
                       Cardinality(stored) = 2 * completed[s] + written(p)
                 /\ running = {} =>
                       /\ Cardinality(stored) = 2 * completed[s]
                       /\ \A cursor \in Cursors(history_collection, s) :
                             Len(retrieve_history(history_collection, cursor))
                                = 2 * completed[s]
    /\ \A p \in Procs :
          (pc[p] = "return" /\ args[p].session_id \in Sessions /\ chat_memory) =>
             LET n == Len(history_collection)
             IN  /\ n >= 2
                 /\ history_collection[n - 1].session_id = args[p].session_id
                 /\ history_collection[n - 1].role = "user"
                 /\ history_collection[n - 1].content = args[p].user_query
                 /\ history_collection[n].session_id = args[p].session_id
                 /\ history_collection[n].role = "assistant"
                 /\ history_collection[n].content = answer[p]

\* C2 happens: two calls on one session have returned
C2_Witness ==
    /\ \A p \in Procs : pc[p] = "idle"
    /\ completed["s1"] = 2
    /\ ~cleared["s1"]
    /\ Len(SelectSeq(history_collection, LAMBDA m : m.session_id = "s1")) = 4

\* C3: on a response whose status is not 200, whatever its body, generate
\* does not raise: it goes on to return an error text, which embeds the
\* error payload of the body.
C3_NonSuccessNeverRaises ==
    \A p \in Procs :
        (response[p] # NoResponse /\ response[p].status_code # 200) =>
            /\ pc[p] # "raised"
            /\ "error" \in DOMAIN response[p].body.fields =>
                  answer[p] = "Error: " \o response[p].body.fields.error

\* C4: on a response whose status is not 200, with a session and a chat
\* memory, the call ends with the pair (query, error text) stored as the
\* last two messages of the session.
C4_ErrorPairPersisted ==
    \A p \in Procs :
        (/\ response[p] # NoResponse
         /\ response[p].status_code # 200
         /\ args[p].session_id \in Sessions
         /\ chat_memory
         /\ pc[p] \in {"return", "raised"}) =>
            LET n == Len(history_collection)
            IN  /\ n >= 2
                /\ history_collection[n - 1].session_id = args[p].session_id
                /\ history_collection[n - 1].role = "user"
                /\ history_collection[n - 1].content = args[p].user_query
                /\ history_collection[n].session_id = args[p].session_id
                /\ history_collection[n].role = "assistant"
                /\ history_collection[n].content = answer[p]
                /\ history_collection[n].content # None

\* C27: when retrieval returns no document, generate goes on as with any
\* context: the instruction message has the sentinel instruction and an empty
\* context block, the request is sent, and the answer is what the completion
\* service's response gives.
C27_EmptyContextStillAsks ==
    \A p \in Procs :
        (/\ pc[p] \in {"history", "post", "store_user", "store_assistant",
                       "return", "raised"}
         /\ search(collection, args[p].user_query, NoFilter, NUM_CANDIDATES,
                   VECTOR_SEARCH_LIMIT) = <<>>) =>
            /\ prompt[p] = "Answer the question based only on the following context. "
                           \o "If the context is empty, say I DON'T KNOW\n\n"
                           \o "Context:\n\n\nQuestion:" \o args[p].user_query
            /\ messages[p][1] = [role |-> "user", content |-> prompt[p]]
            /\ pc[p] \in {"store_user", "store_assistant", "return", "raised"} =>
                  /\ response[p] \in Responses
                  /\ answer[p] = Answer(response[p]).answer

\* C27 happens: nothing stored, and the answer of the service is returned
C27_Witness ==
    \E p \in Procs :
        /\ pc[p] = "return"
        /\ collection = <<>>
        /\ response[p].status_code = 200
        /\ answer[p] = "a1"

\* C28: a generate call goes through retrieval, history read, completion
\* call and the two chat memory writes in that order: it changes the chat
\* memory only after its completion call has returned, first with the user
\* message and then with the assistant message, and the request it sends
\* holds the current query once, as its last message, the chat memory
\* holding no message of this query until then.
C28_StepsInOrder ==
    [][\A p \in Procs :
          pc'[p] # pc[p] =>
             /\ <<pc[p], pc'[p]>> \in
                   {<<"idle", "history">>, <<"idle", "raised">>,
                    <<"history", "post">>,
                    <<"post", "store_user">>, <<"post", "return">>,
                    <<"post", "raised">>,
                    <<"store_user", "store_assistant">>,
                    <<"store_assistant", "return">>,
                    <<"return", "idle">>, <<"raised", "idle">>}
             /\ pc'[p] = "history" =>
                   /\ prompt'[p] # None
                   /\ response'[p] = NoResponse
             /\ pc'[p] = "post" =>
                   /\ response'[p] = NoResponse
                   /\ history_collection' = history_collection
                   /\ \A i \in DOMAIN history_collection' :
                         history_collection'[i].content # args[p].user_query
                   /\ \A i \in 2..(Len(messages'[p]) - 1) :
                         messages'[p][i].content # args[p].user_query
                   /\ messages'[p][Len(messages'[p])].content = args[p].user_query
             /\ pc[p] = "post" => response'[p] \in Responses
             /\ history_collection' # history_collection =>
                   /\ pc[p] \in {"store_user", "store_assistant"}
                   /\ response[p] \in Responses
                   /\ Len(history_collection') = Len(history_collection) + 1
                   /\ history_collection'[Len(history_collection')].role
                         = IF pc[p] = "store_user" THEN "user" ELSE "assistant"]_vars

\* C28 happens: the request of a second call on a session is ready, with
\* the pair of the first call in it and nothing of the second yet stored
C28_Witness ==
    \E p \in Procs :
        /\ pc[p] = "post"
        /\ UsesMemory(p)
        /\ n_calls = 2
        /\ Len(history_collection) = 2
        /\ Len(messages[p]) = 4

\* C29: a generate call without a session id, with an empty one, or on a
\* generator without chat memory sends exactly the instruction message and
\* the user's query, and no step of it changes the history collection.
C29_NoSessionNoMemory ==
    [][\A p \in Procs :
          (/\ pc'[p] # pc[p]
           /\ pc'[p] # "idle"
           /\ ~(Truthy(args'[p].session_id) /\ chat_memory')) =>
             /\ history_collection' = history_collection
             /\ pc'[p] \notin {"store_user", "store_assistant"}
             /\ pc'[p] = "post" =>
                   messages'[p] = <<[role |-> "user", content |-> prompt'[p]],
                                    [role |-> "user", content |-> args'[p].user_query]>>]_vars

\* C29 happens: a call without a session id returns while the chat memory
\* holds the pair of an earlier call
C29_Witness ==
    \E p \in Procs :
        /\ pc[p] = "return"
        /\ chat_memory
        /\ args[p].session_id \in {None, ""}
        /\ Len(history_collection) = 2
        /\ Len(messages[p]) = 2

\* C30: whatever the interleaving of two generate calls on one session,
\* once both have returned the history of the session is made of pairs: a
\* user message, then directly the assistant message that answers it. Stated
\* for histories whose messages all have different timestamps, the order of
\* which is then the one order of the sort.
C30_PairsUnderInterleaving ==
    (/\ \A p \in Procs : pc[p] = "idle"
     /\ \A i, j \in DOMAIN history_collection :
           i # j => history_collection[i].timestamp # history_collection[j].timestamp) =>
        \A cursor \in Cursors(history_collection, "s1") :
           LET history == retrieve_history(history_collection, cursor)
           IN  /\ Len(history) % 2 = 0
               /\ \A k \in DOMAIN history :
                     history[k].role = IF k % 2 = 1 THEN "user" ELSE "assistant"

\* C31: when a generate call has stopped after its completion call, the
\* chat memory holds both messages of its pair or neither: a stored user
\* message of the call is directly followed by its assistant message.
C31_PairOrNothing ==
    \A p \in Procs :
        (/\ pc[p] = "raised"
         /\ UsesMemory(p)
         /\ response[p] # NoResponse) =>
            \A i \in DOMAIN history_collection :
               (/\ history_collection[i].session_id = args[p].session_id
                /\ history_collection[i].role = "user"
                /\ history_collection[i].content = args[p].user_query) =>
                  /\ i + 1 \in DOMAIN history_collection
                  /\ history_collection[i + 1].session_id = args[p].session_id
                  /\ history_collection[i + 1].role = "assistant"

\* C32: after clear_history(s) the history of s holds no message of a
\* generate call that was in flight when the clear ran.
C32_ClearBeatsInFlight ==
    call.op = "clear_history" =>
        \A i \in DOMAIN history_collection :
           history_collection[i].session_id = call.session_id =>
              history_collection[i].content \notin call.in_flight

-----------------------------------------------------------------------------
(* Properties of search_with_rerank *)

\* C5: when every rerank result names a position of the search results,
\* search_with_rerank returns one record per rerank result, in the order of
\* the rerank results: the record of result k is the search record at its
\* original index, every field of it unchanged, with rerank_score set to the
\* relevance score of result k.
C5_RerankMapsByOriginalIndex ==
    \A p \in Procs :
        pc[p] = "searched" =>
            LET results == retrieval[p].results
                reranked == retrieval[p].reranked
                returned == retrieval[p].returned
            IN  (/\ returned.rerank_called
                 /\ \A k \in DOMAIN reranked :
                        reranked[k].index \in 0..(Len(results) - 1))
                => /\ ~returned.raised
                   /\ Len(returned.value) = Len(reranked)
                   /\ \A k \in DOMAIN reranked :
                        LET orig == results[reranked[k].index + 1]
                            out == returned.value[k]
                        IN  /\ DOMAIN out = DOMAIN orig \cup {"rerank_score"}
                            /\ \A f \in DOMAIN orig : out[f] = orig[f]
                            /\ out.rerank_score = reranked[k].relevance_score

\* C5 happens: two search records reranked into the opposite order
C5_Witness ==
    \E p \in Procs :
        /\ pc[p] = "searched"
        /\ Len(retrieval[p].results) = 2
        /\ Len(retrieval[p].reranked) = 2
        /\ retrieval[p].reranked[1] = [index |-> 1, relevance_score |-> 2]
        /\ retrieval[p].reranked[2] = [index |-> 0, relevance_score |-> 1]
        /\ Len(retrieval[p].returned.value) = 2
        /\ retrieval[p].returned.value[1].productName = "Y"
        /\ retrieval[p].returned.value[1].rerank_score = 2

\* C6: when a rerank result names an index outside 0..n-1 of the n search
\* results, a negative one included, search_with_rerank fails: it never
\* returns with that result mapped onto some record.
C6_OutOfRangeIndexFails ==
    \A p \in Procs :
        pc[p] = "searched" =>
            LET results == retrieval[p].results
                reranked == retrieval[p].reranked
                returned == retrieval[p].returned
            IN  (/\ returned.rerank_called
                 /\ \E k \in DOMAIN reranked :
                        reranked[k].index \notin 0..(Len(results) - 1))
                => returned.raised

\* C7: when the search returns no record, search_with_rerank returns the
\* empty list and the rerank service is not called.
C7_NoResultsNoRerank ==
    \A p \in Procs :
        (/\ pc[p] = "searched"
         /\ retrieval[p].op = "search_with_rerank"
         /\ retrieval[p].results = <<>>) =>
            /\ retrieval[p].returned.value = <<>>
            /\ ~retrieval[p].returned.rerank_called
            /\ ~retrieval[p].returned.raised

\* C7 happens: a filter no chunk of a loaded collection matches
C7_Witness ==
    \E p \in Procs :
        /\ pc[p] = "searched"
        /\ retrieval[p].op = "search_with_rerank"
        /\ collection # <<>>
        /\ retrieval[p].filter_criteria # NoFilter
        /\ retrieval[p].results = <<>>
        /\ retrieval[p].returned.value = <<>>

-----------------------------------------------------------------------------
(* Properties of the index manager *)

\* C8: create_basic_index terminates even when the dropped index never
\* disappears: once it waits for the deletion it ends, in a result or in a
\* failure, after a bounded number of listings.
C8_EnsureIndexTerminates ==
    (ix_pc = "drop_wait") ~> (ix_pc \in {"done", "raised"})

\* C9: when the k-th status poll is the first to observe READY and no
\* earlier poll observed FAILED or DELETING, check_index_ready has returned
\* true after exactly k polls, k at most max_attempts, and polls no more;
\* polls observing CREATING, CREATING, READY give true after 3 polls.
C9_ReadyAtKthPoll ==
    /\ (/\ ix_log.first_ready > 0
        /\ ix_log.first_failed \in {0} \cup (ix_log.first_ready + 1)..max_attempts)
       => /\ ix_pc = "done"
          /\ ix_result = TRUE
          /\ ix_log.polls = ix_log.first_ready
          /\ ix_log.first_ready <= max_attempts
    /\ (/\ Len(ix_log.seen) >= 3
        /\ SubSeq(ix_log.seen, 1, 3) = <<"CREATING", "CREATING", "READY">>)
       => /\ ix_pc = "done"
          /\ ix_result = TRUE
          /\ ix_log.polls = 3

\* C9 happens: CREATING, CREATING, READY
C9_Witness ==
    /\ ix_pc = "done"
    /\ ix_log.seen = <<"CREATING", "CREATING", "READY">>
    /\ ix_log.first_ready = 3
    /\ ix_log.polls = 3
    /\ ix_result = TRUE

\* C10: check_index_ready never polls more than max_attempts times, and
\* when every poll observed the index not ready (CREATING or missing) it
\* returns, without raising, only after exactly max_attempts polls, and it
\* returns false.
C10_TimeoutAfterMaxAttempts ==
    /\ ix_log.polls <= max_attempts
    /\ (ix_log.polls > 0 /\ ix_log.first_ready = 0 /\ ix_log.first_failed = 0)
       => /\ ix_pc \in {"check", "check_sleep", "done"}
          /\ ix_pc = "done" => (ix_log.polls = max_attempts /\ ix_result = FALSE)
          /\ ix_pc = "check" => ix_log.polls < max_attempts

\* C10 happens: max_attempts polls, none of which saw READY, FAILED or DELETING
C10_Witness ==
    /\ ix_pc = "done"
    /\ ix_log.polls = max_attempts
    /\ ix_log.first_ready = 0
    /\ ix_log.first_failed = 0
    /\ Len(ix_log.seen) >= 2
    /\ ix_log.seen[1] = "CREATING"
    /\ ix_log.seen[2] = "ABSENT"
    /\ ix_result = FALSE

\* C11: the first status poll that observes FAILED or DELETING, no earlier
\* poll having observed READY, ends the call: check_index_ready has returned
\* false at that poll and polls no more, whatever the index becomes later.
C11_FailedEndsTheAttempt ==
    (/\ ix_log.first_failed > 0
     /\ ix_log.first_ready \in {0} \cup (ix_log.first_failed + 1)..max_attempts)
    => /\ ix_pc = "done"
       /\ ix_result = FALSE
       /\ ix_log.polls = ix_log.first_failed
       /\ ix_log.first_ready = 0

\* C11 happens: the second poll saw FAILED, and the index is READY later
C11_Witness ==
    /\ ix_pc = "done"
    /\ ix_log.seen = <<"CREATING", "FAILED">>
    /\ ix_log.first_failed = 2
    /\ ix_log.polls = 2
    /\ search_indexes[ATLAS_VECTOR_SEARCH_INDEX_NAME] = "READY"
    /\ ix_result = FALSE

\* C12: create_vector_search_index issues at most one drop and at most one
\* create, the drop first; it drops exactly when its first listing shows
\* the index, and it issues the create only after a listing, the latest
\* one, that does not show the index.
C12_DropThenCreate ==
    /\ ix_log.order \in {<<>>, <<"drop">>, <<"create">>, <<"drop", "create">>}
    /\ ix_log.order # <<>> => (ix_log.order[1] = "drop" <=> ix_log.existed)
    /\ (ix_pc = "create" \/ \E k \in DOMAIN ix_log.order : ix_log.order[k] = "create")
       => ~ix_log.listed
    /\ ix_pc \in {"drop", "drop_wait", "drop_sleep"} => ix_log.existed

\* C12 happens: an index that existed was dropped, and the create was issued
\* once a listing no longer showed it
C12_Witness ==
    /\ ix_log.existed
    /\ ~ix_log.listed
    /\ ix_log.order = <<"drop", "create">>
    /\ ix_pc = "check"

-----------------------------------------------------------------------------
(* Properties of search *)

\* C17: every vector search stage sent to the store by search or by
\* search_with_rerank has numCandidates >= limit: a search with fewer
\* candidates than its limit is refused before anything is sent.
C17_CandidatesAtLeastLimit ==
    \A p \in Procs :
        pc[p] = "searched" =>
            retrieval[p].issued.numCandidates >= retrieval[p].issued.limit

\* C18: a filter given to search is part of the vector search stage and is
\* applied before the cut to the limit: every result satisfies it, and the
\* results are as many as the limit allows of the chunks that satisfy it,
\* chunks that fail it being nearer to the query or not.
C18_FilterBeforeLimit ==
    \A p \in Procs :
        (/\ pc[p] = "searched"
         /\ retrieval[p].op = "search"
         /\ ~retrieval[p].returned.raised) =>
            LET filter == retrieval[p].filter_criteria
                results == retrieval[p].returned.value
                matching == {i \in DOMAIN collection :
                                \A k \in DOMAIN filter :
                                   /\ k \in DOMAIN collection[i]
                                   /\ collection[i][k] = filter[k]}
            IN  /\ filter # NoFilter => retrieval[p].issued.filter = filter
                /\ \A i \in DOMAIN results :
                      \A k \in DOMAIN filter :
                         k \in DOMAIN results[i] /\ results[i][k] = filter[k]
                /\ Len(results) =
                      IF Cardinality(matching) < retrieval[p].issued.limit
                      THEN Cardinality(matching) ELSE retrieval[p].issued.limit

\* C18 happens: limit 1, filter productName = X, and the Y chunk is the
\* nearer to the query: the X chunk is returned
C18_Witness ==
    \E p \in Procs :
        /\ pc[p] = "searched"
        /\ retrieval[p].op = "search"
        /\ collection = KnowledgeBase
        /\ retrieval[p].filter_criteria = [productName |-> "X"]
        /\ retrieval[p].issued.limit = 1
        /\ Score(QueryEmbedding(retrieval[p].user_query), KnowledgeBase[2].embedding)
              > Score(QueryEmbedding(retrieval[p].user_query), KnowledgeBase[1].embedding)
        /\ Len(retrieval[p].returned.value) = 1
        /\ retrieval[p].returned.value[1].productName = "X"

\* C19: a filter given in a /query request restricts the retrieval of that
\* request: the context block of its prompt is made of chunks that satisfy
\* the filter, and of no other chunk.
C19_QueryFilterRestrictsContext ==
    \A p \in Procs :
        (/\ request[p] # NoRequest
         /\ pc[p] \in {"history", "post", "store_user", "store_assistant", "return"}) =>
            LET filter == request[p].filter_criteria
                matching == {i \in DOMAIN collection :
                                \A k \in DOMAIN filter :
                                   /\ k \in DOMAIN collection[i]
                                   /\ collection[i][k] = filter[k]}
                contexts == UNION {{c \in [1..m -> matching] :
                                       \A i, j \in 1..m : i # j => c[i] # c[j]} :
                                   m \in 0..Cardinality(matching)}
            IN  \E c \in contexts :
                   prompt[p] = create_prompt([k \in DOMAIN c |-> collection[c[k]]],
                                             request[p].query)

-----------------------------------------------------------------------------
(* Properties of the chat memory *)

\* C13: retrieve_history returns the messages of the session, each once, in
\* ascending order of timestamp, whatever the order of their insertion.
C13_HistorySortedByTimestamp ==
    call.op = "retrieve_history" =>
        LET stored == {i \in DOMAIN history_collection :
                          history_collection[i].session_id = call.session_id}
            n == Len(call.value)
        IN  /\ n = Cardinality(stored)
            /\ \E c \in [1..n -> stored] :
                 /\ \A i, j \in 1..n : i # j => c[i] # c[j]
                 /\ \A i, j \in 1..n :
                       i < j => history_collection[c[i]].timestamp
                                   <= history_collection[c[j]].timestamp
                 /\ \A i \in 1..n :
                       call.value[i] = [role |-> history_collection[c[i]].role,
                                        content |-> history_collection[c[i]].content]

\* C13 happens: timestamps 3, 1, 2 in insertion order, read back as 1, 2, 3
C13_Witness ==
    /\ call.op = "retrieve_history"
    /\ call.session_id = "s1"
    /\ Len(history_collection) = 3
    /\ \A i \in 1..3 : history_collection[i].session_id = "s1"
    /\ history_collection[1].timestamp = 3
    /\ history_collection[2].timestamp = 1
    /\ history_collection[3].timestamp = 2
    /\ Len(call.value) = 3
    /\ call.value[1].content = "m2"
    /\ call.value[2].content = "m3"
    /\ call.value[3].content = "m1"

\* C14: when a generate call with a session and a chat memory has stored
\* its two messages, every history of the session lists the user message
\* of the call before its assistant message, whatever timestamps the two
\* inserts got, equal ones included.
C14_PairReadInOrder ==
    \A p \in Procs :
        (pc[p] = "return" /\ args[p].session_id \in Sessions /\ chat_memory) =>
            LET n == Len(history_collection)
            IN  \A cursor \in Cursors(history_collection, args[p].session_id) :
                   \E i, j \in DOMAIN cursor :
                      /\ cursor[i] = n - 1
                      /\ cursor[j] = n
                      /\ i < j
                      /\ retrieve_history(history_collection, cursor)[i]
                            = [role |-> "user", content |-> args[p].user_query]
                      /\ retrieve_history(history_collection, cursor)[j]
                            = [role |-> "assistant", content |-> answer[p]]

\* C15: after clear_history(s) no message of s is stored, the history of s
\* is empty, and one more clear_history(s) changes nothing; on a session
\* without messages clear_history changes nothing.
C15_ClearIdempotent ==
    call.op = "clear_history" =>
        /\ \A i \in DOMAIN history_collection :
              history_collection[i].session_id # call.session_id
        /\ \A cursor \in Cursors(history_collection, call.session_id) :
              retrieve_history(history_collection, cursor) = <<>>
        /\ clear_history(history_collection, call.session_id) = history_collection
        /\ (\A i \in DOMAIN call.before :
               call.before[i].session_id # call.session_id)
           => history_collection = call.before

\* C15 happens: clear_history(s1) on a store that holds no message of s1,
\* as a clear_history(s1) leaves it, and holds messages of another session
C15_Witness ==
    /\ call.op = "clear_history"
    /\ call.session_id = "s1"
    /\ call.appended["s1"] = <<>>
    /\ call.before = history_collection
    /\ Len(history_collection) = 2

\* C16: the history of a session is exactly what was stored under it since
\* its latest clear_history, so a store or a clear on another session never
\* changes it; for a session without messages it is the empty list.
C16_HistoryPerSession ==
    /\ \A s \in Sessions :
          \A cursor \in Cursors(history_collection, s) :
             LET history == retrieve_history(history_collection, cursor)
                 n == Len(call.appended[s])
             IN  /\ Len(history) = n
                 /\ \A k \in 1..n :
                       Cardinality({i \in 1..n : history[i] = call.appended[s][k]})
                          = Cardinality({i \in 1..n :
                                call.appended[s][i] = call.appended[s][k]})
    /\ call.op = "retrieve_history" =>
          /\ Len(call.value) = Len(call.appended[call.session_id])
          /\ \A i \in DOMAIN call.value :
                \E k \in DOMAIN call.appended[call.session_id] :
                   call.value[i] = call.appended[call.session_id][k]

\* C16 happens: clear_history(s2) deleted a message and left those of s1
C16_Witness ==
    /\ call.op = "clear_history"
    /\ call.session_id = "s2"
    /\ \E i \in DOMAIN call.before : call.before[i].session_id = "s2"
    /\ Len(call.appended["s1"]) = 2
    /\ Len(history_collection) = 2

-----------------------------------------------------------------------------
(* Properties of process_documents *)

\* the dicts of the list embedded_docs, as they are now
EmbeddedDocs == [x \in DOMAIN loader.embedded_docs |-> loader.heap[loader.embedded_docs[x]]]

\* C20: process_documents returns the records of its documents in document
\* order, those of one document in chunk order: the k-th record of document
\* j carries the k-th chunk of j as its text and the k-th embedding returned
\* for j, and follows every record of the documents before j.
C20_DocumentThenChunkOrder ==
    loader.pc = "returned" =>
        LET docs == loader.given
            records == EmbeddedDocs
            count(j) == IF Len(get_chunks(docs[j], loader.text_field))
                             < Len(loader.calls[j].embeddings)
                        THEN Len(get_chunks(docs[j], loader.text_field))
                        ELSE Len(loader.calls[j].embeddings)
            pairs == UNION {{<<j, k>> : k \in 1..count(j)} : j \in 1..Len(docs)}
        IN  /\ Len(loader.calls) = Len(docs)
            /\ Len(records) = Cardinality(pairs)
            /\ \A q \in pairs :
                  LET x == Cardinality({r \in pairs : r[1] < q[1]}) + q[2]
                  IN  /\ records[x][loader.text_field]
                            = get_chunks(docs[q[1]], loader.text_field)[q[2]]
                      /\ records[x].embedding = loader.calls[q[1]].embeddings[q[2]]
                      /\ records[x].title = docs[q[1]].title

\* C20 happens: a document of two chunks, then a document of one
C20_Witness ==
    /\ loader.pc = "returned"
    /\ Len(loader.docs) = 2
    /\ loader.given[1].title = "T1"
    /\ loader.given[2].title = "T2"
    /\ Len(loader.embedded_docs) = 3
    /\ EmbeddedDocs[1] = [body |-> "a", title |-> "T1", embedding |-> 11]
    /\ EmbeddedDocs[2] = [body |-> "b", title |-> "T1", embedding |-> 12]
    /\ EmbeddedDocs[3] = [body |-> "c", title |-> "T2", embedding |-> 21]

\* C21: process_documents returns exactly one record per chunk of every
\* input document, whatever number of vectors the embedding service gave
\* back for the document: no chunk is left out of the returned list.
C21_OneRecordPerChunk ==
    loader.pc = "returned" =>
        LET chunk_ids == UNION {{<<j, k>> :
                                   k \in 1..Len(get_chunks(loader.given[j],
                                                           loader.text_field))} :
                                j \in 1..Len(loader.docs)}
        IN  /\ Len(loader.embedded_docs) = Cardinality(chunk_ids)
            /\ \A q \in chunk_ids :
                  \E x \in DOMAIN loader.embedded_docs :
                     /\ EmbeddedDocs[x].title = loader.given[q[1]].title
                     /\ EmbeddedDocs[x][loader.text_field]
                           = get_chunks(loader.given[q[1]], loader.text_field)[q[2]]

\* C22: when the embedding of the j-th document fails, the records made
\* from the documents before j are not lost to the caller, and the failure
\* names document j.
C22_FailureKeepsEarlierDocuments ==
    (/\ loader.pc = "raised"
     /\ loader.embedded_docs # <<>>
     /\ loader.calls # <<>>
     /\ ~loader.calls[Len(loader.calls)].ok) =>
        /\ loader.returned.value = loader.embedded_docs
        /\ \E a \in DOMAIN loader.returned.exception.args :
              \/ loader.returned.exception.args[a] = loader.i + 1
              \/ loader.returned.exception.args[a] = loader.given[loader.i + 1].title

\* C23: process_documents makes one document-mode embedding call per
\* document it has reached, in document order; the call of document j holds
\* the chunks of j, all of them and in chunk order, and nothing else. A call
\* that returns has made exactly one call per input document.
C23_OneCallPerDocument ==
    loader.pc \in {"loop", "returned", "raised"} =>
        /\ loader.pc = "returned" => Len(loader.calls) = Len(loader.docs)
        /\ loader.pc = "loop" => Len(loader.calls) = loader.i
        /\ loader.pc = "raised" => Len(loader.calls) \in {loader.i, loader.i + 1}
        /\ \A j \in DOMAIN loader.calls :
              /\ loader.calls[j].input_type = "document"
              /\ loader.calls[j].content
                    = get_chunks(loader.given[j], loader.text_field)

\* C23 happens: two documents, two calls, the first with both chunks of T1
C23_Witness ==
    /\ loader.pc = "returned"
    /\ Len(loader.docs) = 2
    /\ loader.given[1].title = "T1"
    /\ loader.given[2].title = "T2"
    /\ Len(loader.calls) = 2
    /\ loader.calls[1].content = <<"a", "b">>
    /\ loader.calls[2].content = <<"c">>

\* C24: every record returned by process_documents has the fields of its
\* parent document and the field embedding, with the parent's value in every
\* field but the text field and embedding; the input documents are what they
\* were when passed; and the fields set on one record are set on that record
\* alone: each record still has its own chunk and vector after its siblings
\* got theirs, and the parent still has its whole text.
C24_CopyPerChunk ==
    loader.pc \in {"loop", "returned"} =>
        /\ \A j \in DOMAIN loader.docs : loader.heap[loader.docs[j]] = loader.given[j]
        /\ \A j \in 1..loader.i :
              LET chunks == get_chunks(loader.given[j], loader.text_field)
                  vectors == loader.calls[j].embeddings
                  first == Cardinality(UNION {{<<h, k>> :
                                                 k \in 1..Min(Len(get_chunks(loader.given[h],
                                                                              loader.text_field)),
                                                               Len(loader.calls[h].embeddings))} :
                                              h \in 1..(j - 1)})
              IN  \A k \in 1..Min(Len(chunks), Len(vectors)) :
                     LET record == EmbeddedDocs[first + k]
                     IN  /\ DOMAIN record = DOMAIN loader.given[j] \cup {"embedding"}
                         /\ \A f \in DOMAIN loader.given[j] \ {loader.text_field} :
                               record[f] = loader.given[j][f]
                         /\ record[loader.text_field] = chunks[k]
                         /\ record.embedding = vectors[k]

\* C24 happens: the two records of T1 differ in text and vector, share the
\* title, and T1 itself still has its whole text and no embedding
C24_Witness ==
    /\ loader.pc = "returned"
    /\ Len(loader.docs) = 1
    /\ loader.heap[loader.docs[1]] = [body |-> <<"a", "", "b">>, title |-> "T1"]
    /\ Len(loader.embedded_docs) = 2
    /\ EmbeddedDocs[1] = [body |-> "a", title |-> "T1", embedding |-> 11]
    /\ EmbeddedDocs[2] = [body |-> "b", title |-> "T1", embedding |-> 12]

-----------------------------------------------------------------------------
(* Properties of the API service *)

\* C25: a missing required setting makes validation fail at startup before
\* any component is constructed, and the service does not start: no request
\* reaches a generator built while the store connection string or the
\* completion endpoint was missing.
C25_IncompleteSettingsNeverServe ==
    service.pc # "off" =>
        /\ (service.pc = "failed" /\ service.step = 0) => service.globals = {}
        /\ (service.handled # <<>> /\ service.handled.used = "generator") =>
              /\ service.settings.MONGODB_URI # ""
              /\ service.settings.PROXY_ENDPOINT # ""

\* C26: a request handled while the component its endpoint needs is not
\* initialized is answered with status 503, on every endpoint.
C26_UninitializedGives503 ==
    (service.pc # "off" /\ service.handled # <<>>) =>
        (Guards[service.handled.endpoint] \notin service.globals =>
            service.handled.status_code = 503)

-----------------------------------------------------------------------------
(* Properties of the ingestion workflow *)

\* C33: the ingestion changes the collection only after process_documents
\* has returned, every document chunked and its embedding call answered; it
\* sends its index requests only after the insert; and when the data file is
\* missing or the loading or the processing fails, the collection is what it
\* was and no index request has been sent.
C33_DeleteAfterProcessing ==
    [][/\ collection' # collection =>
            /\ loader.pc \in {"returned", "deleted"}
            /\ ~loader.returned.raised
            /\ loader.i = Len(loader.docs)
            /\ Len(loader.calls) = Len(loader.docs)
            /\ \A j \in DOMAIN loader.calls : loader.calls[j].ok
            /\ loader.pc = "returned" => collection' = <<>>
            /\ loader.pc = "deleted" =>
                  /\ collection = <<>>
                  /\ Len(collection') = Len(loader.returned.value)
       /\ (ix_pc' # ix_pc \/ ix_log' # ix_log) =>
            /\ loader.pc = "inserted"
            /\ collection # <<>>
            /\ collection # KnowledgeBase
       /\ loader'.pc \in {"no_file", "load_raised", "raised"} =>
            /\ collection' = KnowledgeBase
            /\ ix_pc' = "idle"
            /\ ix_log' = NoLog]_vars

\* C33 happens: the documents are in, the old index was dropped and the new
\* one asked for
C33_Witness ==
    /\ loader.pc = "inserted"
    /\ Len(collection) = 3
    /\ collection[1].body = "a"
    /\ ix_log.order = <<"drop", "create">>

=============================================================================
